---- MODULE Spec2Model ----
(***************************************************************************)
(* A model of three pieces of dcos-e2e:                                    *)
(*   - validate_node_reference (src/cli/_validators.py), which resolves a  *)
(*     node reference against the containers of a cluster;                 *)
(*   - is_enterprise (src/cli/_utils.py) and its caller validate_variant,  *)
(*     which classify a build artifact from its "--version" output;        *)
(*   - build_docker_image (src/dcos_e2e/backends/_docker/_docker_build.py),*)
(*     which builds the two-layer node image.                              *)
(* Strings are TLA+ strings and are taken apart character by character     *)
(* (Len, Head, Tail, SubSeq), so upper(), startswith() and the JSON reader *)
(* compute what the Python code computes.                                  *)
(***************************************************************************)
EXTENDS Integers, Sequences, FiniteSets, TLC

VARIABLES
    docker_containers,  \* the running containers the Docker daemon reports
    resolve_call,       \* the last validate_node_reference call and its outcome
    resolve_repeat,     \* the outcome of calling it again with the same arguments
    variant_pc,         \* where validate_variant is: "idle", "check_output", "done"
    stdout,             \* what the artifact's "--version" run has written
    printed,            \* the kinds of the lines written, in order
    returncode,         \* the exit status of that run, -1 while it runs
    probe,              \* the outcome of is_enterprise
    variant_outcome,    \* the outcome of validate_variant
    workspace_dir,      \* "absent" or "exists": the directory validate_variant made
    echoed,             \* what validate_variant has written with click.echo
    image_store,        \* the local image store: the image under each name
    build_pc,           \* where each caller's build_docker_image call is
    build_args,         \* the arguments of each caller's call
    build_error,        \* the exception each caller's call ended with
    base_built,         \* what the first build of each caller's call made
    docker_attempted,   \* whether each caller's call started its second build
    store_at_call,      \* the image store as it was when each call started
    dockerfile_from     \* the parent the base-docker Dockerfile names

resolve_vars == <<docker_containers, resolve_call, resolve_repeat>>

probe_vars ==
    <<variant_pc, stdout, printed, returncode, probe, variant_outcome, workspace_dir, echoed>>

build_vars ==
    <<image_store, build_pc, build_args, build_error, base_built, docker_attempted,
      store_at_call, dockerfile_from>>

(***************************************************************************)
(* Bounds.                                                                 *)
(***************************************************************************)
MaxContainers == 2
MaxLines == 3

(***************************************************************************)
(* str.upper()                                                             *)
(***************************************************************************)
Lowercase == "abcdefghijklmnopqrstuvwxyz"
Uppercase == "ABCDEFGHIJKLMNOPQRSTUVWXYZ"

CharAt(s, i) == SubSeq(s, i, i)

\* The capital of each lower-case letter.
UpperOf ==
    [c \in {CharAt(Lowercase, i) : i \in 1..Len(Lowercase)} |->
        CharAt(Uppercase, CHOOSE i \in 1..Len(Lowercase) : CharAt(Lowercase, i) = c)]

UpperChar(c) == IF c \in DOMAIN UpperOf THEN UpperOf[c] ELSE c

RECURSIVE upper(_)
upper(s) == IF s = "" THEN "" ELSE UpperChar(Head(s)) \o upper(Tail(s))

\* A mixed-case variant of s: its first letter capitalised.
Capitalized(s) == IF s = "" THEN "" ELSE UpperChar(Head(s)) \o Tail(s)

(***************************************************************************)
(* The container runtime and the cluster's containers.                     *)
(***************************************************************************)
ClusterIds == {"alpha", "beta"}
Roles == {"master", "agent", "public_agent"}
\* The containers that can run, as the runtime reports them: the i-th has the
\* i-th id, IP address and name.  Names are chosen by whoever starts the
\* container and the runtime only keeps them unique: "master_0" and "abc123"
\* (the id of another container) are legal names.
ContainerIds == <<"abc123", "def456", "0a1b2c">>
IpAddresses == <<"10.0.0.5", "10.0.0.6", "10.0.0.7">>
ContainerNames == <<"node-a", "master_0", "abc123">>

Digits == "0123456789"
IndexString(i) == CharAt(Digits, i + 1)

\* The symbolic reference "<role>_<number>".
e2e_reference(role, index) == role \o "_" \o IndexString(index)

UsedIds == {c.docker_container_id : c \in docker_containers}

\* The cluster's creator numbers the nodes of a role: the first number free.
FreshIndex(cluster_id, role) ==
    CHOOSE i \in 0..MaxContainers :
        /\ ~\E c \in docker_containers :
              c.cluster_id = cluster_id /\ c.role = role /\ c.role_index = i
        /\ \A j \in 0..(i - 1) : \E c \in docker_containers :
              c.cluster_id = cluster_id /\ c.role = role /\ c.role_index = j

\* ClusterContainers(cluster_id).masters / .agents / .public_agents
ClusterContainers(cluster_id, role) ==
    {c \in docker_containers : c.cluster_id = cluster_id /\ c.role = role}

\* ContainerInspectView(container).to_dict()
ContainerInspectView(container) ==
    [e2e_reference |-> e2e_reference(container.role, container.role_index),
     ip_address |-> container.ip_address,
     docker_container_name |-> container.docker_container_name,
     docker_container_id |-> container.docker_container_id]

\* ClusterContainers.to_node(container)
to_node(container) ==
    [ip_address |-> container.ip_address,
     docker_container_id |-> container.docker_container_id]

(***************************************************************************)
(* validate_node_reference                                                 *)
(***************************************************************************)
\* Variants of "accepted" with a slip in them, used to test the properties.
accepted_without_id(container) ==
    LET inspect_data == ContainerInspectView(container)
        reference == inspect_data.e2e_reference
    IN  {reference,
         upper(reference),
         inspect_data.ip_address,
         inspect_data.docker_container_name}

accepted_without_upper(container) ==
    LET inspect_data == ContainerInspectView(container)
    IN  {inspect_data.e2e_reference,
         inspect_data.ip_address,
         inspect_data.docker_container_name,
         inspect_data.docker_container_id}

accepted_upper_id(container) ==
    LET inspect_data == ContainerInspectView(container)
        reference == inspect_data.e2e_reference
    IN  {reference,
         upper(reference),
         inspect_data.ip_address,
         inspect_data.docker_container_name,
         inspect_data.docker_container_id,
         upper(inspect_data.docker_container_id)}

\* The tuple "accepted" built for one container.
accepted(container) ==
    LET inspect_data == ContainerInspectView(container)
        reference == inspect_data.e2e_reference
    IN  {reference,
         upper(reference),
         inspect_data.ip_address,
         inspect_data.docker_container_name,
         inspect_data.docker_container_id}

\* A variant of "containers" that forgets the cluster.
containers_of_every_cluster(cluster_id) == docker_containers

\* The set "containers": masters, agents and public agents together.
containers(cluster_id) ==
    ClusterContainers(cluster_id, "master")
        \cup ClusterContainers(cluster_id, "agent")
        \cup ClusterContainers(cluster_id, "public_agent")

\* The orders in which Python may iterate the set.
IterationOrders(S) ==
    {o \in [1..Cardinality(S) -> S] : \A i, j \in 1..Cardinality(S) : o[i] = o[j] => i = j}

BadParameter(cluster_id, value) ==
    [kind |-> "BadParameter", cluster_id |-> cluster_id, value |-> value]

\* The for loop over "containers" in the given order, then the raise.
RECURSIVE for_container(_, _, _, _)
for_container(order, i, cluster_id, value) ==
    IF i > Len(order)
    THEN BadParameter(cluster_id, value)
    ELSE IF value \in accepted(order[i])
         THEN [kind |-> "return", node |-> to_node(order[i])]
         ELSE for_container(order, i + 1, cluster_id, value)

\* Every outcome the call can have, one per iteration order.
Outcomes(cluster_id, value) ==
    {for_container(o, 1, cluster_id, value) : o \in IterationOrders(containers(cluster_id))}

AllReferences ==
    {e2e_reference(r, i) : r \in Roles, i \in 0..(MaxContainers - 1)}

\* The reference strings a caller passes.
Values ==
    AllReferences
        \cup {upper(s) : s \in AllReferences}
        \cup {Capitalized(s) : s \in AllReferences}
        \cup {IpAddresses[i] : i \in 1..Len(IpAddresses)}
        \cup {ContainerIds[i] : i \in 1..Len(ContainerIds)}
        \cup {upper(ContainerIds[i]) : i \in 1..Len(ContainerIds)}
        \cup {ContainerNames[i] : i \in 1..Len(ContainerNames)}
        \cup {upper(ContainerNames[i]) : i \in 1..Len(ContainerNames)}

NoCall == [kind |-> "none"]

validate_node_reference ==
    /\ resolve_call = NoCall
    /\ \E cluster_id \in ClusterIds, value \in Values :
          \E result \in Outcomes(cluster_id, value) :
              resolve_call' = [cluster_id |-> cluster_id, value |-> value, result |-> result]
    /\ resolve_repeat' = NoCall
    /\ UNCHANGED docker_containers

\* The same call again, with no change of the topology in between.
validate_node_reference_again ==
    /\ resolve_call # NoCall
    /\ resolve_repeat = NoCall
    /\ \E result \in Outcomes(resolve_call.cluster_id, resolve_call.value) :
            resolve_repeat' = result
    /\ UNCHANGED <<docker_containers, resolve_call>>

\* The command that made the calls exits; its results are gone.
CommandExit ==
    /\ resolve_call # NoCall
    /\ resolve_call' = NoCall
    /\ resolve_repeat' = NoCall
    /\ UNCHANGED docker_containers

\* A container of a cluster starts, between two commands: one of the
\* containers that is not running, with its id, IP address and name; the
\* cluster's creator numbers the nodes of a role.
DockerRun ==
    /\ resolve_call = NoCall
    /\ Cardinality(docker_containers) < MaxContainers
    /\ \E cluster_id \in ClusterIds, role \in Roles,
          i \in {k \in 1..Len(ContainerIds) : ContainerIds[k] \notin UsedIds} :
          docker_containers' = docker_containers \cup
              {[cluster_id |-> cluster_id,
                role |-> role,
                role_index |-> FreshIndex(cluster_id, role),
                docker_container_name |-> ContainerNames[i],
                docker_container_id |-> ContainerIds[i],
                ip_address |-> IpAddresses[i]]}
    /\ UNCHANGED <<resolve_call, resolve_repeat>>

\* A container stops, between two commands.
DockerRm ==
    /\ resolve_call = NoCall
    /\ \E c \in docker_containers : docker_containers' = docker_containers \ {c}
    /\ UNCHANGED <<resolve_call, resolve_repeat>>

ResolveInit ==
    /\ docker_containers = {}
    /\ resolve_call = NoCall
    /\ resolve_repeat = NoCall


(***************************************************************************)
(* is_enterprise: the text pipeline.                                       *)
(***************************************************************************)
\* str.splitlines(), for text whose only line boundary is "\n": the pieces
\* between the boundaries, without an empty piece after the last boundary.
splitlines(s) ==
    LET breaks == {i \in 1..Len(s) : CharAt(s, i) = "\n"}
        ends == IF s = "" \/ Len(s) \in breaks THEN breaks ELSE breaks \cup {Len(s) + 1}
        start(e) == IF \E k \in breaks : k < e
                    THEN (CHOOSE k \in breaks : k < e /\ \A j \in breaks : j < e => j <= k) + 1
                    ELSE 1
        nth(n) == CHOOSE e \in ends : Cardinality({k \in ends : k <= e}) = n
    IN  [n \in 1..Cardinality(ends) |-> SubSeq(s, start(nth(n)), nth(n) - 1)]

\* str.startswith(prefix)
startswith(s, prefix) ==
    /\ Len(prefix) <= Len(s)
    /\ SubSeq(s, 1, Len(prefix)) = prefix

\* "sub in s"
contains(s, sub) ==
    \E i \in 1..(Len(s) - Len(sub) + 1) : SubSeq(s, i, i + Len(sub) - 1) = sub

\* The condition of the list comprehension, with a slip: no ".tar" test.
keep_line_without_tar(line) ==
    /\ ~startswith(line, "Extracting image")
    /\ ~startswith(line, "Loaded image")

\* The condition of the list comprehension.
keep_line(line) ==
    /\ ~startswith(line, "Extracting image")
    /\ ~startswith(line, "Loaded image")
    /\ ~contains(line, ".tar")

\* ' '.join(lines)
RECURSIVE join(_, _)
join(sep, lines) ==
    IF lines = <<>> THEN ""
    ELSE IF Len(lines) = 1 THEN lines[1]
    ELSE lines[1] \o sep \o join(sep, Tail(lines))

(***************************************************************************)
(* json.loads, for documents made of objects and strings without escapes.  *)
(* A parse step returns [ok, value, rest].                                 *)
(***************************************************************************)
JsonWhitespace == {" ", "\t", "\n", "\r"}
Quote == "\""

\* s without its leading whitespace.
skip_whitespace(s) ==
    LET others == {i \in 1..Len(s) : CharAt(s, i) \notin JsonWhitespace}
    IN  IF others = {} THEN ""
        ELSE SubSeq(s, CHOOSE i \in others : \A j \in others : i <= j, Len(s))

ParseError == [ok |-> FALSE]

\* A string: the characters up to the closing quote; s starts after the
\* opening quote.
scan_string(s) ==
    LET quotes == {i \in 1..Len(s) : CharAt(s, i) = Quote}
    IN  IF quotes = {} THEN ParseError
        ELSE LET close == CHOOSE i \in quotes : \A j \in quotes : i <= j
             IN  [ok |-> TRUE,
                  value |-> [type |-> "str", s |-> SubSeq(s, 1, close - 1)],
                  rest |-> SubSeq(s, close + 1, Len(s))]

RECURSIVE parse_value(_)
RECURSIVE parse_members(_, _)

\* The members of an object; s starts at a key, pairs holds those read so far.
parse_members(s, pairs) ==
    LET s1 == skip_whitespace(s)
    IN  IF s1 = "" \/ Head(s1) # Quote THEN ParseError
        ELSE LET key == scan_string(Tail(s1))
             IN  IF ~key.ok THEN ParseError
                 ELSE LET s2 == skip_whitespace(key.rest)
                      IN  IF s2 = "" \/ Head(s2) # ":" THEN ParseError
                          ELSE LET val == parse_value(Tail(s2))
                               IN  IF ~val.ok THEN ParseError
                                   ELSE LET s3 == skip_whitespace(val.rest)
                                            read == Append(pairs, <<key.value.s, val.value>>)
                                        IN  IF s3 = "" THEN ParseError
                                            ELSE IF Head(s3) = "}"
                                                 THEN [ok |-> TRUE,
                                                       value |-> [type |-> "dict", pairs |-> read],
                                                       rest |-> Tail(s3)]
                                            ELSE IF Head(s3) = ","
                                                 THEN parse_members(Tail(s3), read)
                                            ELSE ParseError

parse_value(s) ==
    LET s1 == skip_whitespace(s)
    IN  IF s1 = "" THEN ParseError
        ELSE IF Head(s1) = Quote THEN scan_string(Tail(s1))
        ELSE IF Head(s1) = "{"
             THEN LET s2 == skip_whitespace(Tail(s1))
                  IN  IF s2 # "" /\ Head(s2) = "}"
                      THEN [ok |-> TRUE,
                            value |-> [type |-> "dict", pairs |-> <<>>],
                            rest |-> Tail(s2)]
                      ELSE parse_members(s2, <<>>)
        ELSE ParseError

\* json.loads(text): the document, or JSONDecodeError.
json_loads(text) ==
    LET doc == parse_value(text)
    IN  IF doc.ok /\ skip_whitespace(doc.rest) = ""
        THEN [ok |-> TRUE, value |-> doc.value]
        ELSE ParseError

Raise(exc) == [kind |-> "raise", exc |-> exc]
Return(value) == [kind |-> "return", value |-> value]

\* version_info['variant']
getitem_variant(version_info) ==
    IF version_info.type # "dict" THEN Raise("TypeError")
    ELSE LET found == {i \in 1..Len(version_info.pairs) : version_info.pairs[i][1] = "variant"}
         IN  IF found = {} THEN Raise("KeyError")
             ELSE Return(version_info.pairs[CHOOSE i \in found : \A j \in found : j <= i][2])

\* The filtered, joined text.
filtered(result) == join(" ", SelectSeq(splitlines(result), keep_line))

\* is_enterprise after check_output has returned "result".
is_enterprise(result) ==
    LET version_info == json_loads(filtered(result))
    IN  IF ~version_info.ok THEN Raise("JSONDecodeError")
        ELSE LET variant == getitem_variant(version_info.value)
             IN  IF variant.kind = "raise" THEN variant
                 ELSE Return(variant.value = [type |-> "str", s |-> "ee"])

(***************************************************************************)
(* The artifact's "--version" run and validate_variant.                    *)
(***************************************************************************)
\* The lines an artifact writes.  kind says what the line is: noise (a line
\* that starts with "Extracting image" or "Loaded image" or that mentions
\* ".tar"), a whole version report and its variant, a report without a
\* variant, the two halves of a report wrapped over two lines, a JSON
\* document that is no object, or other text.
ArtifactLines ==
    {[text |-> "Extracting image sha256:1f2e", kind |-> "noise"],
     [text |-> "Loaded image: mesosphere/dcos-genconf", kind |-> "noise"],
     [text |-> "dcos-genconf.1f2e.tar", kind |-> "noise"],
     [text |-> "{\"variant\": \"ee\", \"bundle\": \"a.tar\"}", kind |-> "noise"],
     [text |-> "{\"variant\": \"ee\", \"version\": \"1.11.0\"}", kind |-> "report_ee"],
     [text |-> "{\"variant\": \"oss\", \"version\": \"1.11.0\"}", kind |-> "report_other"],
     [text |-> "{\"variant\": \"\", \"version\": \"1.11.0\"}", kind |-> "report_other"],
     [text |-> "{\"version\": \"1.11.0\"}", kind |-> "report_without_variant"],
     [text |-> "{\"variant\":", kind |-> "report_head"],
     [text |-> "\"ee\"}", kind |-> "report_tail"],
     [text |-> "\"ee\"", kind |-> "json_string"],
     [text |-> " Loaded image: indented", kind |-> "text"]}

Stderrs == {"", "bash: dcos_generate_config.sh: No such file or directory"}
\* (the source puts back quotes around the command name)
doctor_message == "Try dcos-docker doctor for troubleshooting help."

NoOutcome == [kind |-> "none"]

\* validate_variant with a value other than "auto": the value is returned.
validate_variant_given ==
    /\ variant_pc = "idle"
    /\ \E value \in {"enterprise", "oss"} :
          variant_outcome' = Return(value)
    /\ variant_pc' = "done"
    /\ UNCHANGED <<stdout, printed, returncode, probe, workspace_dir, echoed>>

\* validate_variant with "auto", up to the start of the subprocess in
\* is_enterprise: the workspace directory is made.
validate_variant_auto ==
    /\ variant_pc = "idle"
    /\ workspace_dir' = "exists"
    /\ variant_pc' = "check_output"
    /\ UNCHANGED <<stdout, printed, returncode, probe, variant_outcome, echoed>>

\* The artifact writes a line to its standard output.
artifact_writes ==
    /\ variant_pc = "check_output"
    /\ Len(printed) < MaxLines
    /\ \E line \in ArtifactLines :
          /\ stdout' = stdout \o line.text \o "\n"
          /\ printed' = Append(printed, line.kind)
    /\ UNCHANGED <<variant_pc, returncode, probe, variant_outcome, workspace_dir, echoed>>

\* The artifact exits with status 0: check_output returns, is_enterprise
\* finishes, and validate_variant returns or lets the exception pass.
artifact_exits_zero ==
    /\ variant_pc = "check_output"
    /\ returncode' = 0
    /\ probe' = is_enterprise(stdout)
    /\ IF probe'.kind = "raise"
       THEN /\ variant_outcome' = probe'
            /\ UNCHANGED workspace_dir
       ELSE /\ variant_outcome' = Return(IF probe'.value THEN "enterprise" ELSE "oss")
            /\ workspace_dir' = "absent"
    /\ variant_pc' = "done"
    /\ UNCHANGED <<stdout, printed, echoed>>

\* The artifact exits with another status: check_output raises
\* CalledProcessError, which validate_variant catches, reports and re-raises.
artifact_exits_nonzero ==
    /\ variant_pc = "check_output"
    /\ \E stderr \in Stderrs :
          /\ returncode' = 1
          /\ probe' = [kind |-> "raise", exc |-> "CalledProcessError", stderr |-> stderr]
          /\ workspace_dir' = "absent"
          /\ echoed' = <<doctor_message, "", "Original error:", stderr>>
          /\ variant_outcome' = probe'
    /\ variant_pc' = "done"
    /\ UNCHANGED <<stdout, printed>>

\* The command ends; the next one starts afresh, with a new directory name.
variant_command_exits ==
    /\ variant_pc = "done"
    /\ variant_pc' = "idle"
    /\ stdout' = ""
    /\ printed' = <<>>
    /\ returncode' = -1
    /\ probe' = NoOutcome
    /\ variant_outcome' = NoOutcome
    /\ workspace_dir' = "absent"
    /\ echoed' = <<>>

ProbeInit ==
    /\ variant_pc = "idle"
    /\ stdout = ""
    /\ printed = <<>>
    /\ returncode = -1
    /\ probe = NoOutcome
    /\ variant_outcome = NoOutcome
    /\ workspace_dir = "absent"
    /\ echoed = <<>>


(***************************************************************************)
(* build_docker_image                                                      *)
(***************************************************************************)
Callers == {"c1", "c2"}

\* The tags callers build under.
Tags == {"mesosphere/dcos-docker", "dcos-e2e-node"}

\* base_tag = tag + ':base'
base_tag(tag) == tag \o ":base"

ImageNames == Tags \cup {base_tag(t) : t \in Tags}

\* The members of Distribution; RHEL_7 is one the Docker backend has no
\* Dockerfile for.
Distributions == {"CENTOS_7", "COREOS", "RHEL_7"}

\* The dictionary dcos_docker_distros of _base_dockerfile.
dcos_docker_distros ==
    [d \in {"CENTOS_7", "COREOS"} |-> IF d = "CENTOS_7" THEN "centos-7" ELSE "coreos"]

\* The members of DockerVersion; the last is one the dictionary below lacks.
DockerVersions == {"v1_11_2", "v1_13_1", "v17_12_1_ce", "v18_06_3_ce"}

\* The dictionary docker_versions of build_docker_image.
docker_versions ==
    [v \in {"v1_11_2", "v1_13_1", "v17_12_1_ce"} |->
        CASE v = "v1_11_2" -> "1.11.2"
          [] v = "v1_13_1" -> "1.13.1"
          [] v = "v17_12_1_ce" -> "17.12.1-ce"]

NoImage == [layer |-> "none"]

\* The image a build of a base Dockerfile directory makes.
BaseImage(path) == [layer |-> "base", path |-> path]

\* The image a build of the base-docker directory makes: the Dockerfile names
\* its parent, and DOCKER_VERSION is the one build argument.
DockerImage(parent, docker_version) ==
    [layer |-> "docker", parent |-> parent, DOCKER_VERSION |-> docker_version]

EmptyStore == [n \in ImageNames |-> NoImage]

NoArgs == [tag |-> "", linux_distribution |-> "", docker_version |-> ""]

\* The call, up to the first build: the paths are worked out, and
\* _base_dockerfile raises KeyError for a distribution it does not list.
\* Nothing in the function keeps two callers apart.
build_docker_image_enter(c, tag, linux_distribution, docker_version) ==
    /\ build_pc[c] = "idle"
    /\ build_args' = [build_args EXCEPT ![c] =
            [tag |-> tag, linux_distribution |-> linux_distribution,
             docker_version |-> docker_version]]
    /\ store_at_call' = [store_at_call EXCEPT ![c] = image_store]
    /\ IF linux_distribution \in DOMAIN dcos_docker_distros
       THEN /\ build_pc' = [build_pc EXCEPT ![c] = "build_base"]
            /\ UNCHANGED build_error
       ELSE /\ build_pc' = [build_pc EXCEPT ![c] = "raised"]
            /\ build_error' = [build_error EXCEPT ![c] = "KeyError"]
    /\ UNCHANGED <<image_store, base_built, docker_attempted, dockerfile_from>>

\* The same, made while no other call is under way.
build_docker_image(c, tag, linux_distribution, docker_version) ==
    /\ \A o \in Callers : build_pc[o] = "idle"
    /\ build_docker_image_enter(c, tag, linux_distribution, docker_version)

\* The first build with a slip: a failure is swallowed and the call goes on.
build_base_swallowing_failure(c) ==
    /\ build_pc[c] = "build_base"
    /\ \E built \in BOOLEAN :
          IF built
          THEN LET image == BaseImage(dcos_docker_distros[build_args[c].linux_distribution])
               IN  /\ image_store' =
                          [image_store EXCEPT ![base_tag(build_args[c].tag)] = image]
                   /\ base_built' = [base_built EXCEPT ![c] = image]
          ELSE /\ base_built' = [base_built EXCEPT ![c] = [layer |-> "failed"]]
               /\ UNCHANGED image_store
    /\ build_pc' = [build_pc EXCEPT ![c] = "build_docker"]
    /\ UNCHANGED <<build_args, build_error, store_at_call, docker_attempted, dockerfile_from>>

\* client.images.build(path=base_dockerfile, tag=base_tag): the image is
\* built and tagged, or the build fails with BuildError and tags nothing.
build_base(c) ==
    /\ build_pc[c] = "build_base"
    /\ \E built \in BOOLEAN :
          IF built
          THEN LET image == BaseImage(dcos_docker_distros[build_args[c].linux_distribution])
               IN  /\ image_store' =
                          [image_store EXCEPT ![base_tag(build_args[c].tag)] = image]
                   /\ base_built' = [base_built EXCEPT ![c] = image]
                   /\ build_pc' = [build_pc EXCEPT ![c] = "build_docker"]
                   /\ UNCHANGED build_error
          ELSE /\ base_built' = [base_built EXCEPT ![c] = [layer |-> "failed"]]
               /\ build_pc' = [build_pc EXCEPT ![c] = "raised"]
               /\ build_error' = [build_error EXCEPT ![c] = "BuildError"]
               /\ UNCHANGED image_store
    /\ UNCHANGED <<build_args, store_at_call, docker_attempted, dockerfile_from>>

\* client.images.build(path=docker_dockerfile, tag=tag, buildargs=...): the
\* build argument is looked up first, which raises KeyError for a version the
\* dictionary lacks; then the image is built on the image the Dockerfile
\* names and tagged, or the build fails with BuildError and tags nothing.  A
\* Dockerfile whose parent is not in the image store cannot be built.
build_docker(c) ==
    /\ build_pc[c] = "build_docker"
    /\ IF build_args[c].docker_version \notin DOMAIN docker_versions
       THEN /\ build_pc' = [build_pc EXCEPT ![c] = "raised"]
            /\ build_error' = [build_error EXCEPT ![c] = "KeyError"]
            /\ UNCHANGED <<image_store, docker_attempted>>
       ELSE /\ docker_attempted' = [docker_attempted EXCEPT ![c] = TRUE]
            /\ \E built \in BOOLEAN :
                  IF built /\ image_store[dockerfile_from] # NoImage
                  THEN /\ image_store' = [image_store EXCEPT ![build_args[c].tag] =
                              DockerImage(image_store[dockerfile_from],
                                          docker_versions[build_args[c].docker_version])]
                       /\ build_pc' = [build_pc EXCEPT ![c] = "returned"]
                       /\ UNCHANGED build_error
                  ELSE /\ build_pc' = [build_pc EXCEPT ![c] = "raised"]
                       /\ build_error' = [build_error EXCEPT ![c] = "BuildError"]
                       /\ UNCHANGED image_store
    /\ UNCHANGED <<build_args, store_at_call, base_built, dockerfile_from>>

\* The caller has the result and may call again.
build_finished(c) ==
    /\ build_pc[c] \in {"returned", "raised"}
    /\ build_pc' = [build_pc EXCEPT ![c] = "idle"]
    /\ build_args' = [build_args EXCEPT ![c] = NoArgs]
    /\ build_error' = [build_error EXCEPT ![c] = "none"]
    /\ base_built' = [base_built EXCEPT ![c] = NoImage]
    /\ docker_attempted' = [docker_attempted EXCEPT ![c] = FALSE]
    /\ store_at_call' = [store_at_call EXCEPT ![c] = EmptyStore]
    /\ UNCHANGED <<image_store, dockerfile_from>>

\* A whole call made alone on the given store, both builds succeeding where
\* they can: the store it leaves.
build_alone(store, args) ==
    IF args.linux_distribution \notin DOMAIN dcos_docker_distros THEN store
    ELSE LET with_base == [store EXCEPT ![base_tag(args.tag)] =
                              BaseImage(dcos_docker_distros[args.linux_distribution])]
         IN  IF \/ args.docker_version \notin DOMAIN docker_versions
                \/ with_base[dockerfile_from] = NoImage
             THEN with_base
             ELSE [with_base EXCEPT ![args.tag] =
                      DockerImage(with_base[dockerfile_from],
                                  docker_versions[args.docker_version])]

\* Two calls, one after the other.
one_after_the_other(store, first, second) == build_alone(build_alone(store, first), second)

\* The image store is empty at first.  The base-docker Dockerfile is a fixed
\* file that build_docker_image passes no tag to: the parent it names is the
\* base tag of one tag, whichever tag the caller builds under.
BuildInit ==
    /\ image_store = EmptyStore
    /\ build_pc = [c \in Callers |-> "idle"]
    /\ build_args = [c \in Callers |-> NoArgs]
    /\ build_error = [c \in Callers |-> "none"]
    /\ base_built = [c \in Callers |-> NoImage]
    /\ docker_attempted = [c \in Callers |-> FALSE]
    /\ store_at_call = [c \in Callers |-> EmptyStore]
    /\ dockerfile_from \in {base_tag(t) : t \in Tags}



(***************************************************************************)
(* Properties of validate_node_reference.                                  *)
(***************************************************************************)
\* u is s with every lower-case letter replaced by its capital.
IsUpperCased(u, s) ==
    /\ Len(u) = Len(s)
    /\ \A i \in 1..Len(s) : CharAt(u, i) = UpperChar(CharAt(s, i))

\* u and s differ at most in the case of their letters.
SameIgnoringCase(u, s) ==
    /\ Len(u) = Len(s)
    /\ \A i \in 1..Len(s) : UpperChar(CharAt(u, i)) = UpperChar(CharAt(s, i))

RecordsOf(cluster_id) == {c \in docker_containers : c.cluster_id = cluster_id}

SymbolicReference(c) == c.role \o "_" \o IndexString(c.role_index)

\* v is acceptable for record c: its symbolic reference, that reference
\* upper-cased, its IP address, its container name or its container id.
Accepts(c, v) ==
    \/ v = SymbolicReference(c)
    \/ IsUpperCased(v, SymbolicReference(c))
    \/ v = c.ip_address
    \/ v = c.docker_container_name
    \/ v = c.docker_container_id

Acceptors(cluster_id, v) == {c \in RecordsOf(cluster_id) : Accepts(c, v)}

Called == resolve_call # NoCall
Returned(c) == resolve_call.result = [kind |-> "return", node |-> to_node(c)]
NotFound == resolve_call.result.kind = "BadParameter"

\* The section 3 uniqueness invariants of one cluster.
Sec3Unique(cluster_id) ==
    \A a, b \in RecordsOf(cluster_id) :
        a # b => /\ <<a.role, a.role_index>> # <<b.role, b.role_index>>
                 /\ a.docker_container_id # b.docker_container_id
                 /\ a.ip_address # b.ip_address
                 /\ a.docker_container_name # b.docker_container_name

\* C1: a call returns a node only for a container of the given cluster that
\* accepts the reference, and raises click.BadParameter, naming the cluster id
\* and the literal reference, exactly when no container of the cluster (of any
\* role) accepts it; a cluster with no containers included.
C1_ResolveContract ==
    Called =>
        LET cid == resolve_call.cluster_id
            v == resolve_call.value
            res == resolve_call.result
        IN  /\ res.kind \in {"return", "BadParameter"}
            /\ res.kind = "return" =>
                  \E c \in Acceptors(cid, v) : res.node = to_node(c)
            /\ res.kind = "BadParameter" <=> Acceptors(cid, v) = {}
            /\ res.kind = "BadParameter" => res.cluster_id = cid /\ res.value = v

\* C1 witness: the call failed for a cluster with no containers although a
\* container of another cluster accepts the reference.
C1_Witness ==
    /\ Called
    /\ NotFound
    /\ RecordsOf(resolve_call.cluster_id) = {}
    /\ \E c \in docker_containers : Accepts(c, resolve_call.value)

\* C2 as stated: in a cluster that satisfies the uniqueness invariants, a call
\* with a record's symbolic reference, its upper-cased reference, its IP
\* address or its container id returns that record's node, and a symbolic
\* reference that no record carries fails.
C2_AsStated ==
    Called /\ Sec3Unique(resolve_call.cluster_id) =>
        LET cid == resolve_call.cluster_id
            v == resolve_call.value
        IN  /\ \A r \in RecordsOf(cid) :
                  (\/ v = SymbolicReference(r)
                   \/ IsUpperCased(v, SymbolicReference(r))
                   \/ v = r.ip_address
                   \/ v = r.docker_container_id) => Returned(r)
            /\ (/\ v \in AllReferences
                /\ \A r \in RecordsOf(cid) : v # SymbolicReference(r)) => NotFound

\* C2 (amended): the same, for a reference string that no other record of the
\* cluster accepts (which it can only through its container name); and a
\* symbolic reference that no record of the cluster accepts in any way fails.
C2_OwnReferencesResolve ==
    Called /\ Sec3Unique(resolve_call.cluster_id) =>
        LET cid == resolve_call.cluster_id
            v == resolve_call.value
        IN  /\ \A r \in RecordsOf(cid) :
                  (/\ \/ v = SymbolicReference(r)
                      \/ IsUpperCased(v, SymbolicReference(r))
                      \/ v = r.ip_address
                      \/ v = r.docker_container_id
                   /\ Acceptors(cid, v) \subseteq {r}) => Returned(r)
            /\ (v \in AllReferences /\ Acceptors(cid, v) = {}) => NotFound

\* C2 witness: in a cluster of two records, the upper-cased symbolic reference
\* of one of them resolved to it.
C2_Witness ==
    /\ Called
    /\ Cardinality(RecordsOf(resolve_call.cluster_id)) = 2
    /\ \E r \in RecordsOf(resolve_call.cluster_id) :
          /\ resolve_call.value = upper(SymbolicReference(r))
          /\ Returned(r)

\* C3 as stated: every case variant of a record's symbolic reference resolves.
C3_AsStated ==
    Called =>
        \A r \in RecordsOf(resolve_call.cluster_id) :
            SameIgnoringCase(resolve_call.value, SymbolicReference(r))
                => resolve_call.result.kind = "return"

\* C3 (amended): a record's symbolic reference resolves as written and fully
\* upper-cased, and in no other case variant; an IP address, a container name
\* and a container id resolve only as written.  So a reference that is a case
\* variant of one of a record's strings, and equals none of the cluster's
\* acceptable strings character for character, is not found.
C3_CaseHandling ==
    Called =>
        LET cid == resolve_call.cluster_id
            v == resolve_call.value
            Strings(c) == {SymbolicReference(c), c.ip_address,
                           c.docker_container_name, c.docker_container_id}
            Exact(c) == Strings(c) \cup {upper(SymbolicReference(c))}
        IN  \A r \in RecordsOf(cid) :
                /\ v \in {SymbolicReference(r), upper(SymbolicReference(r))}
                      => resolve_call.result.kind = "return"
                /\ (/\ \E x \in Strings(r) : SameIgnoringCase(v, x)
                    /\ \A c \in RecordsOf(cid) : v \notin Exact(c)) => NotFound

\* C3 witness: a mixed-case variant of a record's symbolic reference, such as
\* "Master_0" for "master_0", was not found.
C3_Witness ==
    /\ Called
    /\ NotFound
    /\ \E r \in RecordsOf(resolve_call.cluster_id) :
          /\ resolve_call.value = Capitalized(SymbolicReference(r))
          /\ resolve_call.value # SymbolicReference(r)

\* No record's container name is a string another record of the cluster
\* accepts.
NoNameCollision(cluster_id) ==
    \A a, b \in RecordsOf(cluster_id) :
        a # b => ~Accepts(b, a.docker_container_name)

\* The reference string of the call is acceptable for at most one record of
\* the cluster; the calls range over every reference string in every topology.
AtMostOneAcceptor(cluster_id) ==
    (Called /\ resolve_call.cluster_id = cluster_id)
        => Cardinality(Acceptors(cluster_id, resolve_call.value)) <= 1

\* C10 as stated: where (role, role_index), container id and IP address are
\* each unique, every reference string is acceptable for at most one record,
\* and a repeated call returns what the first call returned.
C10_AsStated ==
    \A cid \in ClusterIds :
        Sec3Unique(cid) =>
            /\ AtMostOneAcceptor(cid)
            /\ (Called /\ resolve_call.cluster_id = cid /\ resolve_repeat # NoCall)
                  => resolve_repeat = resolve_call.result

\* C10 (amended): the same where, in addition, no record's container name
\* equals a string another record of the cluster accepts.
C10_OrderIndependent ==
    \A cid \in ClusterIds :
        Sec3Unique(cid) /\ NoNameCollision(cid) =>
            /\ AtMostOneAcceptor(cid)
            /\ (Called /\ resolve_call.cluster_id = cid /\ resolve_repeat # NoCall)
                  => resolve_repeat = resolve_call.result

\* C10 witness: in a cluster of two records without such a collision, a call
\* and its repetition both returned a node.
C10_Witness ==
    /\ Called
    /\ resolve_repeat # NoCall
    /\ resolve_repeat.kind = "return"
    /\ Cardinality(RecordsOf(resolve_call.cluster_id)) = 2
    /\ NoNameCollision(resolve_call.cluster_id)

(***************************************************************************)
(* Properties of is_enterprise and validate_variant.                       *)
(***************************************************************************)
IsKept(kind) == kind # "noise"

\* The kinds of the lines that are not noise, in the order written.
Kept == SelectSeq(printed, IsKept)

\* What is left is one version report: on one line, or wrapped over two.
ReportsEnterprise == Kept \in {<<"report_ee">>, <<"report_head", "report_tail">>}
ReportsOther == Kept = <<"report_other">>

ProbeFinished == variant_pc = "done" /\ returncode = 0

\* C4: the noise lines are dropped wherever they stand and the other lines
\* are joined and read as JSON; the result is True exactly when what is left
\* is a report whose variant is "ee", and False for a report with any other
\* variant.  The outcome is a function of the lines written alone.
C4_Classify ==
    ProbeFinished =>
        /\ ReportsEnterprise <=> probe = Return(TRUE)
        /\ ReportsOther <=> probe = Return(FALSE)
        /\ probe = Return(TRUE) => variant_outcome = Return("enterprise")
        /\ probe = Return(FALSE) => variant_outcome = Return("oss")

\* C4 witness: an "Extracting image" line, a line that mentions ".tar" and an
\* enterprise report were written, and the result is True.
C4_Witness ==
    /\ ProbeFinished
    /\ probe = Return(TRUE)
    /\ Len(printed) = 3
    /\ Kept = <<"report_ee">>
    /\ contains(stdout, "Extracting image")
    /\ contains(stdout, ".tar\n")

\* C5 as stated: when what is left is no version report with a variant,
\* is_enterprise fails with the dedicated error MalformedVersionReport; a
\* non-zero exit is reported apart from it, with the captured stderr.
C5_AsStated ==
    /\ (ProbeFinished /\ ~ReportsEnterprise /\ ~ReportsOther)
          => probe = Raise("MalformedVersionReport")
    /\ (variant_pc = "done" /\ returncode = 1)
          => /\ probe.kind = "raise"
             /\ probe.exc = "CalledProcessError"
             /\ echoed[Len(echoed)] = probe.stderr

\* C11 as stated: once validate_variant has returned or raised, the workspace
\* directory it made is gone, whether is_enterprise returned, the artifact
\* exited with a non-zero status or the version report was malformed.
C11_AsStated ==
    variant_pc = "done" => workspace_dir = "absent"

(***************************************************************************)
(* Properties of build_docker_image.                                       *)
(***************************************************************************)
UnknownArgs(c) ==
    \/ build_args[c].linux_distribution \notin DOMAIN dcos_docker_distros
    \/ build_args[c].docker_version \notin DOMAIN docker_versions

Ended(c) == build_pc[c] \in {"returned", "raised"}

\* C6 as stated: a call with a distribution or a Docker version the tables
\* lack fails, and when it fails on the missing entry the image store is as
\* it was when the call started.
C6_AsStated ==
    \A c \in Callers :
        (Ended(c) /\ UnknownArgs(c)) =>
            /\ build_pc[c] = "raised"
            /\ build_error[c] = "KeyError" => image_store = store_at_call[c]

\* C7 as stated, for the tag whose base tag the base-docker Dockerfile names:
\* whenever no call is under way, the image under the tag is one built on
\* the image now under "{tag}:base".
C7_AsStated ==
    (\A c \in Callers : build_pc[c] \in {"idle", "returned", "raised"}) =>
        \A t \in Tags :
            (base_tag(t) = dockerfile_from /\ image_store[t] # NoImage)
                => image_store[t].parent = image_store[base_tag(t)]

\* C8 as stated: a call that returns leaves images under the two distinct
\* names "{tag}:base" and tag, and the parent of the image under tag is the
\* image the call built under "{tag}:base".
C8_AsStated ==
    \A c \in Callers :
        build_pc[c] = "returned" =>
            LET tag == build_args[c].tag
            IN  /\ tag # base_tag(tag)
                /\ image_store[base_tag(tag)] = base_built[c]
                /\ image_store[tag].layer = "docker"
                /\ image_store[tag].parent = base_built[c]

\* C9: in a call the base build comes first and the second build is started
\* only after the base build has made its image; when the base build fails
\* the second build is never started and the image under tag stays as it was.
C9_Sequential ==
    \A c \in Callers :
        build_pc[c] # "idle" =>
            LET tag == build_args[c].tag
                untouched == image_store[tag] = store_at_call[c][tag]
            IN  /\ docker_attempted[c] => base_built[c].layer = "base"
                /\ base_built[c] = NoImage => ~docker_attempted[c] /\ untouched
                /\ base_built[c].layer = "failed" =>
                      /\ ~docker_attempted[c]
                      /\ untouched
                      /\ build_pc[c] = "raised"
                /\ ~untouched =>
                      /\ base_built[c].layer = "base"
                      /\ build_pc[c] = "returned"

\* C9 witness: the base build of a call failed while an image was stored
\* under the call's tag.
C9_Witness ==
    \E c \in Callers :
        /\ base_built[c].layer = "failed"
        /\ build_pc[c] = "raised"
        /\ image_store[build_args[c].tag] # NoImage

\* The tags a call with the given tag writes.
TagsWritten(tag) == {tag, base_tag(tag)}

\* C12 as stated: two calls with different tags write disjoint sets of tags,
\* and when both have returned, having started on the same image store (one
\* that holds the parent the base-docker Dockerfile names), the store is the
\* one that the two calls made one after the other leave, in either order.
C12_AsStated ==
    /\ \A t, u \in Tags : t # u => TagsWritten(t) \cap TagsWritten(u) = {}
    /\ \A c, o \in Callers :
          (/\ c # o
           /\ build_pc[c] = "returned"
           /\ build_pc[o] = "returned"
           /\ build_args[c].tag # build_args[o].tag
           /\ store_at_call[c] = store_at_call[o]
           /\ store_at_call[c][dockerfile_from] # NoImage)
              => /\ image_store = one_after_the_other(store_at_call[c], build_args[c], build_args[o])
                 /\ image_store = one_after_the_other(store_at_call[c], build_args[o], build_args[c])

vars == <<resolve_vars, probe_vars, build_vars>>

Init == ResolveInit /\ ProbeInit /\ BuildInit

\* The build pipeline takes no part in the two specifications below: one of
\* its initial states is enough for them.
InitBuildAtRest == Init /\ dockerfile_from = base_tag("mesosphere/dcos-docker")

\* The node reference resolver and the container runtime.
ResolveStep ==
    \/ validate_node_reference /\ UNCHANGED <<probe_vars, build_vars>>
    \/ validate_node_reference_again /\ UNCHANGED <<probe_vars, build_vars>>
    \/ CommandExit /\ UNCHANGED <<probe_vars, build_vars>>
    \/ DockerRun /\ UNCHANGED <<probe_vars, build_vars>>
    \/ DockerRm /\ UNCHANGED <<probe_vars, build_vars>>

SpecResolve == InitBuildAtRest /\ [][ResolveStep]_vars

\* The artifact variant probe.
ProbeStep ==
    \/ validate_variant_given /\ UNCHANGED <<resolve_vars, build_vars>>
    \/ validate_variant_auto /\ UNCHANGED <<resolve_vars, build_vars>>
    \/ artifact_writes /\ UNCHANGED <<resolve_vars, build_vars>>
    \/ artifact_exits_zero /\ UNCHANGED <<resolve_vars, build_vars>>
    \/ artifact_exits_nonzero /\ UNCHANGED <<resolve_vars, build_vars>>
    \/ variant_command_exits /\ UNCHANGED <<resolve_vars, build_vars>>

SpecProbe == InitBuildAtRest /\ [][ProbeStep]_vars

\* The image build pipeline, one call at a time.
BuildStep ==
    \E c \in Callers :
        \/ /\ \E tag \in Tags, linux_distribution \in Distributions,
                 docker_version \in DockerVersions :
                   build_docker_image(c, tag, linux_distribution, docker_version)
           /\ UNCHANGED <<resolve_vars, probe_vars>>
        \/ build_base(c) /\ UNCHANGED <<resolve_vars, probe_vars>>
        \/ build_docker(c) /\ UNCHANGED <<resolve_vars, probe_vars>>
        \/ build_finished(c) /\ UNCHANGED <<resolve_vars, probe_vars>>

SpecBuild == Init /\ [][BuildStep]_vars

\* The image build pipeline with calls from two threads: the steps of the
\* calls interleave freely.  The calls are made with the distributions the
\* Docker backend has a Dockerfile for and with one Docker version.
ConcurrentBuildStep ==
    \E c \in Callers :
        \/ /\ \E tag \in Tags, linux_distribution \in DOMAIN dcos_docker_distros,
                 docker_version \in {"v1_11_2"} :
                   build_docker_image_enter(c, tag, linux_distribution, docker_version)
           /\ UNCHANGED <<resolve_vars, probe_vars>>
        \/ build_base(c) /\ UNCHANGED <<resolve_vars, probe_vars>>
        \/ build_docker(c) /\ UNCHANGED <<resolve_vars, probe_vars>>
        \/ build_finished(c) /\ UNCHANGED <<resolve_vars, probe_vars>>

SpecConcurrentBuild == Init /\ [][ConcurrentBuildStep]_vars

====
